---- MODULE Spec2Model ----
(***************************************************************************)
(* Model of the read_it_later content store (src/services/                 *)
(* sqlite_database.rs): the five relations, the store operations at the    *)
(* granularity of one SQL statement per step, and the two aggregated views *)
(* computed the way the queries and the Rust post-processing compute them, *)
(* and the HTTP handlers of src/services/api.rs over the store calls.      *)
(***************************************************************************)
EXTENDS Integers, Sequences, FiniteSets, TLC

(* ------------------------------------------------------------------ *)
(* Bounds of the model                                                 *)
(* ------------------------------------------------------------------ *)
\* caps of the AUTOINCREMENT counters: rows ever created per table
MaxUrlId == 2
MaxTagId == 2
MaxSnippetId == 1
\* longest tag list handed to insert_tags / insert_snippet
MaxTags == 1
\* seconds the clock advances in the runs that let it advance
MaxNow == 1

\* request workers sharing the pool: one at a time, or two interleaved
\* statement by statement
Workers == { 1, 2 }
OneWorker == { 1 }

(* ------------------------------------------------------------------ *)
(* Strings are sequences of characters                                 *)
(* ------------------------------------------------------------------ *)
Comma == ","

\* URL strings callers submit: a plain one, and one that contains a comma
\* whose first piece is the plain one.
UrlInputs == { <<"a">>, <<"a", ",", "b">> }

\* URL strings with a query part: one '?', two of them, and a leading one
QueryUrlInputs == { <<"a">>, <<"a", "?", "b">>, <<"a", "?", "b", "?", "a">>, <<"?", "a">> }

\* source URLs of the snippets callers submit
SourceUrlInputs == { <<"a">> }

\* tag labels callers submit
LabelInputs == { <<"x">>, <<"y">> }

\* tag labels of snippets: a plain one, and one made of a double quote, a
\* comma and a backslash
SnippetLabelInputs == { <<"x">>, << "\"", ",", "\\" >> }

\* snippet bodies callers submit
BodyInputs == { <<"s">> }

RECURSIVE SeqsUpTo(_, _)
SeqsUpTo(S, n) ==
    IF n = 0 THEN { <<>> }
    ELSE LET shorter == SeqsUpTo(S, n - 1)
         IN  shorter \cup { Append(q, e) : q \in shorter, e \in S }

TagListInputs == SeqsUpTo(LabelInputs, MaxTags)

\* tag lists of snippets: up to two labels, in either order, also twice the
\* same
SnippetTagListInputs == SeqsUpTo(SnippetLabelInputs, MaxTags + 1)

\* inputs of the interleaved runs: one URL and one label, so that every call
\* competes for the same rows
ConcUrlInputs == { <<"a">> }
ConcTagListInputs == SeqsUpTo({ <<"x">> }, MaxTags)

\* SQL NULL / Rust None; a present text is wrapped as [text |-> ...], a
\* present integer as [int |-> ...]
Null == [null |-> TRUE]

\* byte value of a character (SQLite BINARY collation, Rust str ordering)
Ord(c) ==
    CASE c = " " -> 32
      [] c = "," -> 44
      [] c = "0" -> 48 [] c = "1" -> 49 [] c = "2" -> 50 [] c = "3" -> 51
      [] c = "4" -> 52 [] c = "5" -> 53 [] c = "6" -> 54 [] c = "7" -> 55
      [] c = "8" -> 56 [] c = "9" -> 57
      [] c = "?" -> 63
      [] c = "a" -> 97 [] c = "b" -> 98
      [] c = "s" -> 115
      [] c = "x" -> 120 [] c = "y" -> 121

RECURSIVE StrLess(_, _)
StrLess(a, b) ==
    IF Len(b) = 0 THEN FALSE
    ELSE IF Len(a) = 0 THEN TRUE
    ELSE IF Ord(Head(a)) # Ord(Head(b)) THEN Ord(Head(a)) < Ord(Head(b))
    ELSE StrLess(Tail(a), Tail(b))

\* str::split(','): always at least one piece
RECURSIVE Split(_, _)
Split(s, sep) ==
    IF \A i \in 1..Len(s) : s[i] # sep THEN << s >>
    ELSE LET k == CHOOSE i \in 1..Len(s) :
                     s[i] = sep /\ \A j \in 1..(i - 1) : s[j] # sep
         IN  << SubSeq(s, 1, k - 1) >> \o Split(SubSeq(s, k + 1, Len(s)), sep)

\* concatenation of a list of strings with a separator
RECURSIVE Join(_, _)
Join(list, sep) ==
    IF Len(list) = 0 THEN <<>>
    ELSE IF Len(list) = 1 THEN list[1]
    ELSE list[1] \o << sep >> \o Join(Tail(list), sep)

Range(f) == { f[i] : i \in DOMAIN f }


(* ------------------------------------------------------------------ *)
(* State                                                               *)
(* ------------------------------------------------------------------ *)
VARIABLES
    urls,          \* table urls: rows [id, datetime, url, url_hash]
    tags,          \* table tags: rows [id, tag]
    url_tags,      \* table url_tags: rows [url_id, tag_id]
    snippets,      \* table snippets: rows [id, url, snippet, tags]
    snippet_tags,  \* table snippet_tags: rows [snippet_id, tag_id]
    seq,           \* AUTOINCREMENT counters: [urls, tags, snippets]
    now,           \* CURRENT_TIMESTAMP, in seconds; it moves on in
                   \* SpecClock only, the other runs fall within one second
    call           \* per worker: the call in flight and its position, or
                   \* the result its latest call returned

vars == << urls, tags, url_tags, snippets, snippet_tags, seq, now, call >>
store == << urls, tags, url_tags, snippets, snippet_tags, seq >>

Idle == [pc |-> "idle"]

\* SHA-256 of the URL text, as a hex string: a function of the text alone,
\* taken to be collision free.
calculate_url_hash(url) == [sha256 |-> url]

\* mutant of JsonEscape: the characters as they are
JsonUnescaped(s) == s

\* JSON text of one string: the characters between double quotes, with a
\* backslash put before every double quote and every backslash
RECURSIVE JsonEscape(_)
JsonEscape(s) ==
    IF Len(s) = 0 THEN <<>>
    ELSE (IF Head(s) \in { "\"", "\\" } THEN << "\\", Head(s) >> ELSE << Head(s) >>)
         \o JsonEscape(Tail(s))

JsonString(s) == << "\"" >> \o JsonEscape(s) \o << "\"" >>

\* serde_json::to_string(&tags): the strings between brackets, separated
\* by commas
to_json(list) ==
    << "[" >> \o Join([ i \in DOMAIN list |-> JsonString(list[i]) ], Comma) \o << "]" >>

\* the reader of a JSON array of strings, one character at a time: `at` is
\* what the reader expects, `cur` the string being read, `acc` the strings
\* read so far; Null when the text is not such an array
RECURSIVE JsonRead(_, _, _, _)
JsonRead(text, at, cur, acc) ==
    IF Len(text) = 0
    THEN IF at = "end" THEN [list |-> acc] ELSE Null
    ELSE LET c == Head(text)
             rest == Tail(text)
         IN  CASE at = "array"  -> IF c = "[" THEN JsonRead(rest, "first", cur, acc)
                                   ELSE Null
               [] at = "first"  -> IF c = "]" THEN JsonRead(rest, "end", cur, acc)
                                   ELSE IF c = "\"" THEN JsonRead(rest, "string", <<>>, acc)
                                   ELSE Null
               [] at = "item"   -> IF c = "\"" THEN JsonRead(rest, "string", <<>>, acc)
                                   ELSE Null
               [] at = "string" -> IF c = "\\" THEN JsonRead(rest, "escape", cur, acc)
                                   ELSE IF c = "\""
                                        THEN JsonRead(rest, "next", <<>>, Append(acc, cur))
                                   ELSE JsonRead(rest, "string", Append(cur, c), acc)
               [] at = "escape" -> IF c \in { "\"", "\\" }
                                   THEN JsonRead(rest, "string", Append(cur, c), acc)
                                   ELSE Null
               [] at = "next"   -> IF c = Comma THEN JsonRead(rest, "item", cur, acc)
                                   ELSE IF c = "]" THEN JsonRead(rest, "end", cur, acc)
                                   ELSE Null
               [] at = "end"    -> Null

\* serde_json::from_str(&tags).unwrap_or_default(): the empty list when the
\* column does not read as an array of strings
from_json(text) ==
    LET read == JsonRead(text, "array", <<>>, <<>>)
    IN  IF read = Null THEN <<>> ELSE read.list

initialize_tables ==
    /\ urls = {}
    /\ tags = {}
    /\ url_tags = {}
    /\ snippets = {}
    /\ snippet_tags = {}
    /\ seq = [urls |-> 0, tags |-> 0, snippets |-> 0]

Init ==
    /\ initialize_tables
    /\ now = 0
    /\ call = [w \in Workers |-> Idle]

(* ------------------------------------------------------------------ *)
(* SQL statements, as functions of the tables                          *)
(* ------------------------------------------------------------------ *)

\* mutant of UpsertUrlId: the id of a fresh row even when the fingerprint is
\* already stored
UpsertUrlIdFresh(url) == seq.urls + 1

\* INSERT INTO urls ... ON CONFLICT (url_hash) DO UPDATE SET url_hash =
\* urls.url_hash RETURNING id: the id the statement returns
UpsertUrlId(url) ==
    LET h == calculate_url_hash(url)
        hit == { r \in urls : r.url_hash = h }
    IN  IF hit # {} THEN (CHOOSE r \in hit : TRUE).id ELSE seq.urls + 1

\* mutant of UpsertUrlRows: a plain INSERT, without the conflict clause
InsertUrlRowsWithoutConflict(url) ==
    urls \cup { [id |-> seq.urls + 1, datetime |-> now,
                 url |-> url, url_hash |-> calculate_url_hash(url)] }

\* ... and the table after it
UpsertUrlRows(url) ==
    LET h == calculate_url_hash(url)
    IN  IF \E r \in urls : r.url_hash = h
        THEN urls
        ELSE urls \cup { [id |-> seq.urls + 1, datetime |-> now,
                          url |-> url, url_hash |-> h] }

UpsertUrlSeq(url) ==
    IF \E r \in urls : r.url_hash = calculate_url_hash(url)
    THEN seq
    ELSE [seq EXCEPT !.urls = @ + 1]

\* the counter cap: a statement that would create a row runs only below it
UrlFits(url) ==
    (\E r \in urls : r.url_hash = calculate_url_hash(url)) \/ seq.urls < MaxUrlId

\* the first text starts the second
IsPrefix(a, b) == Len(a) <= Len(b) /\ SubSeq(b, 1, Len(a)) = a

\* mutant of DeleteUrlRows: DELETE FROM urls WHERE url LIKE ? || '%'
DeleteUrlRowsLike(url) ==
    { r \in urls : ~ IsPrefix(url, r.url) }

\* DELETE FROM urls WHERE url_hash = ?
DeleteUrlRows(url) ==
    { r \in urls : r.url_hash # calculate_url_hash(url) }

\* mutant of CascadeUrlTags: the foreign key without ON DELETE CASCADE and
\* without enforcement
CascadeUrlTagsOff(keptUrls) == url_tags

\* url_tags.url_id REFERENCES urls(id) ON DELETE CASCADE
CascadeUrlTags(keptUrls) ==
    { j \in url_tags : \E r \in keptUrls : r.id = j.url_id }

\* DELETE FROM snippets WHERE id = ?
DeleteSnippetRows(snippet_id) ==
    { r \in snippets : r.id # snippet_id }

\* snippet_tags.snippet_id REFERENCES snippets(id) ON DELETE CASCADE
CascadeSnippetTags(keptSnippets) ==
    { j \in snippet_tags : \E r \in keptSnippets : r.id = j.snippet_id }

\* mutant of TagConflict: the UNIQUE constraint on tags.tag never fires
TagConflictNever(label) == FALSE

\* ON CONFLICT(tag): a row with the label is already stored
TagConflict(label) == \E t \in tags : t.tag = label

\* mutant of UnusedTagsRemoved: the sweep deletes nothing
UnusedTagsKept == tags

\* DELETE FROM tags WHERE id NOT IN (SELECT tag_id FROM url_tags)
\*                    AND id NOT IN (SELECT tag_id FROM snippet_tags)
UnusedTagsRemoved ==
    { t \in tags : ~ ( /\ t.id \notin { j.tag_id : j \in url_tags }
                       /\ t.id \notin { j.tag_id : j \in snippet_tags } ) }

(* ------------------------------------------------------------------ *)
(* Conversions used by the aggregation queries                         *)
(* ------------------------------------------------------------------ *)

DigitChars == << "0", "1", "2", "3", "4", "5", "6", "7", "8", "9" >>

\* an integer column rendered as text inside GROUP_CONCAT
RECURSIVE IntToText(_)
IntToText(n) ==
    IF n < 10 THEN << DigitChars[n + 1] >>
    ELSE IntToText(n \div 10) \o << DigitChars[(n % 10) + 1] >>

IsDigit(c) == \E d \in 1..10 : DigitChars[d] = c
DigitValue(c) == (CHOOSE d \in 1..10 : DigitChars[d] = c) - 1

RECURSIVE DigitsValue(_, _)
DigitsValue(text, acc) ==
    IF Len(text) = 0 THEN acc
    ELSE DigitsValue(Tail(text), acc * 10 + DigitValue(Head(text)))

\* str::parse::<i32>().ok(): Null (None) when the text is no number
ParseInt(text) ==
    IF Len(text) > 0 /\ \A i \in 1..Len(text) : IsDigit(text[i])
    THEN [int |-> DigitsValue(text, 0)]
    ELSE Null

\* the strings of a set in ascending byte order
RECURSIVE SortedStrings(_)
SortedStrings(S) ==
    IF S = {} THEN <<>>
    ELSE LET m == CHOOSE x \in S : \A y \in S \ {x} : StrLess(x, y)
         IN  << m >> \o SortedStrings(S \ {m})

\* the integers of a set in ascending order
RECURSIVE SortedInts(_)
SortedInts(S) ==
    IF S = {} THEN <<>>
    ELSE LET m == CHOOSE x \in S : \A y \in S : x <= y
         IN  << m >> \o SortedInts(S \ {m})

\* GROUP_CONCAT(DISTINCT col) over the non-NULL values of a group: NULL for
\* none, else the values joined by ','. SQL leaves the order of the values
\* open; ascending order is used here.
GroupConcat(values) ==
    IF values = {} THEN Null ELSE [text |-> Join(SortedStrings(values), Comma)]

\* row.try_get::<String>(col).unwrap_or_default(): NULL reads as ""
TextOrDefault(v) == IF v = Null THEN <<>> ELSE v.text

\* if text.is_empty() { Vec::new() } else { text.split(',') ... }
SplitList(text) == IF Len(text) = 0 THEN <<>> ELSE Split(text, Comma)

\* snippet_ids.split(',').filter_map(|id| id.parse::<i32>().ok())
ParsedIds(text) ==
    LET pieces == SplitList(text)
    IN  { p.int : p \in { ParseInt(pieces[i]) : i \in DOMAIN pieces } \ { Null } }

\* a snippets row as the SnippetWithTags record the views return
SnippetRecord(r) ==
    [id |-> r.id, snippet |-> r.snippet, url |-> r.url, tags |-> from_json(r.tags)]

\* get_snippets_with_tags(): SELECT id, snippet, url, tags FROM snippets
\* ORDER BY id DESC, each row read into a SnippetWithTags
RECURSIVE OrderByIdDesc(_)
OrderByIdDesc(rows) ==
    IF rows = {} THEN <<>>
    ELSE LET m == CHOOSE x \in rows : \A y \in rows : y.id <= x.id
         IN  << m >> \o OrderByIdDesc(rows \ {m})

SnippetsWithTags(table) ==
    LET rows == OrderByIdDesc(table)
    IN  [ i \in DOMAIN rows |-> SnippetRecord(rows[i]) ]

get_snippets_with_tags == SnippetsWithTags(snippets)

\* SELECT id, snippet, url, tags FROM snippets WHERE id IN (...), skipped
\* for an empty id list; rows come back in id order
FetchSnippets(ids) ==
    LET found == { r.id : r \in { x \in snippets : x.id \in ids } }
        order == SortedInts(found)
    IN  [ i \in DOMAIN order |->
            SnippetRecord(CHOOSE r \in snippets : r.id = order[i]) ]

(* ------------------------------------------------------------------ *)
(* View B: get_tags_with_urls_and_snippets                             *)
(* ------------------------------------------------------------------ *)

\* LEFT JOIN: the matching rows, or one NULL row when there is none
LeftJoin(rows) == IF rows = {} THEN { Null } ELSE rows

\* all_tags: tags LEFT JOIN url_tags LEFT JOIN urls LEFT JOIN snippet_tags
\* LEFT JOIN snippets, one output row per tag
AllTagsJoin(t) ==
    { [ut |-> ut, u |-> u, st |-> st, s |-> sn] :
        << ut, u, st, sn >> \in
          { q \in LeftJoin({ j \in url_tags : j.tag_id = t.id })
                  \X (urls \cup { Null })
                  \X LeftJoin({ j \in snippet_tags : j.tag_id = t.id })
                  \X (snippets \cup { Null }) :
              /\ q[2] \in LeftJoin(IF q[1] = Null THEN {}
                                   ELSE { r \in urls : r.id = q[1].url_id })
              /\ q[4] \in LeftJoin(IF q[3] = Null THEN {}
                                   ELSE { r \in snippets : r.id = q[3].snippet_id }) } }

AllTagsRow(t) ==
    LET rows == AllTagsJoin(t)
    IN  [tag |-> t.tag,
         urls |-> GroupConcat({ r.u.url : r \in { x \in rows : x.u # Null } }),
         snippet_ids |-> GroupConcat({ IntToText(r.s.id) :
                                        r \in { x \in rows : x.s # Null } }),
         synthetic |-> FALSE]

\* untagged_combined: urls LEFT JOIN url_tags LEFT JOIN snippets ON
\* urls.url = snippets.url LEFT JOIN snippet_tags
\* WHERE url_tags.id IS NULL AND snippet_tags.id IS NULL
UntaggedJoin ==
    { q \in urls \X (url_tags \cup { Null }) \X (snippets \cup { Null })
             \X (snippet_tags \cup { Null }) :
        /\ q[2] \in LeftJoin({ j \in url_tags : j.url_id = q[1].id })
        /\ q[3] \in LeftJoin({ r \in snippets : r.url = q[1].url })
        /\ q[4] \in LeftJoin(IF q[3] = Null THEN {}
                             ELSE { j \in snippet_tags : j.snippet_id = q[3].id })
        /\ q[2] = Null
        /\ q[4] = Null }

\* the aggregate without GROUP BY returns exactly one row
UntaggedRow ==
    [tag |-> <<>>,
     urls |-> GroupConcat({ q[1].url : q \in UntaggedJoin }),
     snippet_ids |-> GroupConcat({ IntToText(q[3].id) :
                                    q \in { x \in UntaggedJoin : x[3] # Null } }),
     synthetic |-> TRUE]

\* ORDER BY tag over the UNION ALL; rows with equal tag keep no promised
\* order, the untagged row is put first among them
RECURSIVE OrderByTag(_)
OrderByTag(rows) ==
    IF rows = {} THEN <<>>
    ELSE LET m == CHOOSE x \in rows :
                    /\ \A y \in rows : ~ StrLess(y.tag, x.tag)
                    /\ x.synthetic \/ \A y \in rows : y.tag = x.tag => ~ y.synthetic
         IN  << m >> \o OrderByTag(rows \ {m})

\* the Rust loop over the rows: split the two texts, fetch the snippets
TagGroup(row) ==
    [tag |-> row.tag,
     urls |-> SplitList(TextOrDefault(row.urls)),
     snippets |-> FetchSnippets(ParsedIds(TextOrDefault(row.snippet_ids))),
     synthetic |-> row.synthetic]

get_tags_with_urls_and_snippets ==
    LET rows == OrderByTag({ AllTagsRow(t) : t \in tags } \cup { UntaggedRow })
    IN  [ i \in DOMAIN rows |-> TagGroup(rows[i]) ]

(* ------------------------------------------------------------------ *)
(* View A: get_urls_with_tags                                          *)
(* ------------------------------------------------------------------ *)

\* GROUP_CONCAT(tags.tag, ',') over urls LEFT JOIN url_tags LEFT JOIN tags
\* for one urls row: NULL without a tag, else the labels joined by ','
\* (one per url_tags row, by tag id)
UrlTagsConcat(u) ==
    LET linked == { j.tag_id : j \in { x \in url_tags : x.url_id = u.id } }
        order == SortedInts(linked)
    IN  IF linked = {} THEN Null
        ELSE [text |-> Join([ i \in DOMAIN order |->
                                (CHOOSE t \in tags : t.id = order[i]).tag ], Comma)]

\* mutant of display_url: the text before the last '?'
display_url_before_last(url) ==
    LET pieces == Split(url, "?")
    IN  IF Len(pieces) = 1 THEN url
        ELSE Join(SubSeq(pieces, 1, Len(pieces) - 1), "?")

\* url.split('?').next()
display_url(url) == Split(url, "?")[1]

UrlWithTags(u) ==
    [url |-> u.url,
     tags |-> SplitList(TextOrDefault(UrlTagsConcat(u))),
     display_url |-> display_url(u.url)]

\* ORDER BY urls.datetime DESC, one of the orders the engine may return:
\* among rows of the same second the higher id is put first here (all of
\* them are OrdersByDatetimeDesc)
RECURSIVE OrderByDatetimeDesc(_)
OrderByDatetimeDesc(rows) ==
    IF rows = {} THEN <<>>
    ELSE LET m == CHOOSE x \in rows : \A y \in rows :
                    \/ y.datetime < x.datetime
                    \/ (y.datetime = x.datetime /\ y.id <= x.id)
         IN  << m >> \o OrderByDatetimeDesc(rows \ {m})

get_urls_with_tags ==
    LET rows == OrderByDatetimeDesc(urls)
    IN  [ i \in DOMAIN rows |-> UrlWithTags(rows[i]) ]

\* ORDER BY datetime DESC, every order the engine may return: rows of the
\* same second come in any order
RECURSIVE OrdersByDatetimeDesc(_)
OrdersByDatetimeDesc(rows) ==
    IF rows = {} THEN { <<>> }
    ELSE UNION { { << m >> \o q : q \in OrdersByDatetimeDesc(rows \ {m}) } :
                 m \in { x \in rows : \A y \in rows : y.datetime <= x.datetime } }

\* get_all_urls(): SELECT id, datetime, url, url_hash FROM urls ORDER BY
\* datetime DESC; the results the call may return
get_all_urls == OrdersByDatetimeDesc(urls)

\* the results get_urls_with_tags may return
get_urls_with_tags_results ==
    { [ i \in DOMAIN rows |-> UrlWithTags(rows[i]) ] : rows \in get_all_urls }

(* ------------------------------------------------------------------ *)
(* The views of the PostgreSQL backend (src/services/postgres_database.rs) *)
(* over the same rows; its snippets.tags column is a TEXT[] holding the  *)
(* labels that the SQLite column holds as JSON text                     *)
(* ------------------------------------------------------------------ *)

\* ARRAY_AGG(DISTINCT col) read with row.try_get::<Vec<_>>(..): the
\* distinct values in ascending order; a NULL among them (the NULL row of
\* a LEFT JOIN) fails the decoding
PgArrayAgg(values, hasNull) ==
    IF hasNull THEN Null ELSE [list |-> values]

\* row.try_get::<Vec<_>>(col).unwrap_or_default()
ListOrDefault(v) == IF v = Null THEN <<>> ELSE v.list

\* first SELECT of the UNION: one row per tag over the same joins as
\* all_tags
PgTagRow(t) ==
    LET rows == AllTagsJoin(t)
    IN  [tag |-> t.tag,
         urls |-> ListOrDefault(PgArrayAgg(
                      SortedStrings({ r.u.url : r \in { x \in rows : x.u # Null } }),
                      \E r \in rows : r.u = Null)),
         snippet_ids |-> ListOrDefault(PgArrayAgg(
                      SortedInts({ r.s.id : r \in { x \in rows : x.s # Null } }),
                      \E r \in rows : r.s = Null))]

\* second SELECT of the UNION: the snippets none of whose labels is a
\* stored tag, one row per label of theirs (unnest), with no URL
PgUnmatchedSnippets ==
    { r \in snippets :
        ~ \E t \in tags : t.tag \in Range(from_json(r.tags)) }

PgUnnestRows ==
    { [tag |-> label,
       urls |-> <<>>,
       snippet_ids |-> SortedInts({ r.id : r \in { x \in PgUnmatchedSnippets :
                                       label \in Range(from_json(x.tags)) } })] :
      label \in UNION { Range(from_json(r.tags)) : r \in PgUnmatchedSnippets } }

\* ORDER BY tag over the UNION, whose rows have distinct tags
RECURSIVE PgOrderByTag(_)
PgOrderByTag(rows) ==
    IF rows = {} THEN <<>>
    ELSE LET m == CHOOSE x \in rows : \A y \in rows : ~ StrLess(y.tag, x.tag)
         IN  << m >> \o PgOrderByTag(rows \ {m})

\* get_tags_with_urls_and_snippets of the PostgreSQL backend
pg_get_tags_with_urls_and_snippets ==
    LET rows == PgOrderByTag({ PgTagRow(t) : t \in tags } \cup PgUnnestRows)
    IN  [ i \in DOMAIN rows |->
            [tag |-> rows[i].tag,
             urls |-> rows[i].urls,
             snippets |-> FetchSnippets(Range(rows[i].snippet_ids))] ]

\* COALESCE(ARRAY_AGG(tags.tag), ARRAY[]::TEXT[]) for one urls row over
\* urls LEFT JOIN url_tags LEFT JOIN tags, read with
\* try_get(..).unwrap_or_default(): the labels, one per url_tags row (by
\* tag id here); the array of the one NULL of a bookmark without tags fails
\* the decoding and reads as the empty list
PgUrlWithTags(u) ==
    LET order == SortedInts({ j.tag_id : j \in { x \in url_tags : x.url_id = u.id } })
    IN  [url |-> u.url,
         tags |-> [ i \in DOMAIN order |->
                      (CHOOSE t \in tags : t.id = order[i]).tag ],
         display_url |-> display_url(u.url)]

\* the results get_urls_with_tags of the PostgreSQL backend may return
pg_get_urls_with_tags_results ==
    { [ i \in DOMAIN rows |-> PgUrlWithTags(rows[i]) ] : rows \in get_all_urls }

(* ------------------------------------------------------------------ *)
(* Store calls, one SQL statement per step                             *)
(* ------------------------------------------------------------------ *)

\* a worker is between two statements of a call
InFlight(w) == call[w].pc \notin { "idle", "returned" }

\* the worker's latest call has returned op's result
HasReturned(w, op) == call[w].pc = "returned" /\ call[w].op = op

\* the call returns Ok(val) or Err(val) to its caller
Returned(w, op, ok, val) ==
    call' = [call EXCEPT ![w] = [pc |-> "returned", op |-> op, ok |-> ok, val |-> val]]

\* insert_url(url): one upsert
insert_url(w, url) ==
    /\ ~ InFlight(w)
    /\ UrlFits(url)
    /\ urls' = UpsertUrlRows(url)
    /\ seq' = UpsertUrlSeq(url)
    /\ Returned(w, "insert_url", TRUE, UpsertUrlId(url))
    /\ UNCHANGED << tags, url_tags, snippets, snippet_tags, now >>

\* the loop over the labels shared by insert_tags and insert_snippet
LoopCall(op, labels, target_id, table) ==
    [pc |-> "get_or_create_tag", op |-> op, labels |-> labels,
     i |-> 1, target_id |-> target_id, tag_id |-> 0, table |-> table]

\* mutant of insert_tags: the URL is upserted before the list is tested
insert_tags_upsert_first(w, url, labels) ==
    /\ ~ InFlight(w)
    /\ UrlFits(url)
    /\ urls' = UpsertUrlRows(url)
    /\ seq' = UpsertUrlSeq(url)
    /\ IF Len(labels) = 0
       THEN Returned(w, "insert_tags", TRUE, 0)
       ELSE call' = [call EXCEPT ![w] =
                  LoopCall("insert_tags", labels, UpsertUrlId(url), "url_tags")]
    /\ UNCHANGED << tags, url_tags, snippets, snippet_tags, now >>

\* insert_tags(url, tags): returns at once on an empty list, else upserts
\* the URL and enters the loop
insert_tags(w, url, labels) ==
    /\ ~ InFlight(w)
    /\ IF Len(labels) = 0
       THEN /\ Returned(w, "insert_tags", TRUE, 0)
            /\ UNCHANGED store
       ELSE /\ UrlFits(url)
            /\ urls' = UpsertUrlRows(url)
            /\ seq' = UpsertUrlSeq(url)
            /\ call' = [call EXCEPT ![w] =
                  LoopCall("insert_tags", labels, UpsertUrlId(url), "url_tags")]
            /\ UNCHANGED << tags, url_tags, snippets, snippet_tags >>
    /\ UNCHANGED now

\* id INTEGER PRIMARY KEY without AUTOINCREMENT: one more than the largest
\* id among the rows present
NextSnippetIdReused ==
    IF snippets = {} THEN 1
    ELSE 1 + (CHOOSE m \in { r.id : r \in snippets } :
                  \A r \in snippets : r.id <= m)

\* id INTEGER PRIMARY KEY AUTOINCREMENT: one more than the largest id the
\* table ever held
NextSnippetId == seq.snippets + 1

\* the counter of the snippets table has not reached the cap
SnippetFits(cap) == seq.snippets < cap

\* insert_snippet(url, snippet, tags): inserts the row unconditionally, then
\* loops over the labels
insert_snippet(w, url, body, labels) ==
    /\ ~ InFlight(w)
    /\ LET id == NextSnippetId IN
       /\ snippets' = snippets \cup
              { [id |-> id, url |-> url, snippet |-> body, tags |-> to_json(labels)] }
       /\ seq' = [seq EXCEPT !.snippets = id]
       /\ IF Len(labels) = 0
          THEN Returned(w, "insert_snippet", TRUE, id)
          ELSE call' = [call EXCEPT ![w] =
                     LoopCall("insert_snippet", labels, id, "snippet_tags")]
    /\ UNCHANGED << urls, tags, url_tags, snippet_tags, now >>

\* get_or_create_tag, first statement:
\* INSERT INTO tags (tag) VALUES (?) ON CONFLICT(tag) DO NOTHING RETURNING id
get_or_create_tag_insert(w) ==
    /\ call[w].pc = "get_or_create_tag"
    /\ LET c == call[w]
           label == c.labels[c.i]
       IN  IF TagConflict(label)
           THEN /\ call' = [call EXCEPT ![w].pc = "select_tag"]
                /\ UNCHANGED << tags, seq >>
           ELSE /\ seq.tags < MaxTagId
                /\ tags' = tags \cup { [id |-> seq.tags + 1, tag |-> label] }
                /\ seq' = [seq EXCEPT !.tags = @ + 1]
                /\ call' = [call EXCEPT ![w].pc = "link_to_tag",
                                        ![w].tag_id = seq.tags + 1]
    /\ UNCHANGED << urls, url_tags, snippets, snippet_tags, now >>

\* mutant of get_or_create_tag_select: no fallback SELECT, the RowNotFound of
\* the conflicting INSERT is returned
get_or_create_tag_no_fallback(w) ==
    /\ call[w].pc = "select_tag"
    /\ Returned(w, call[w].op, FALSE, "RowNotFound")
    /\ UNCHANGED << store, now >>

\* get_or_create_tag, second statement: SELECT id FROM tags WHERE tag = ?
\* with fetch_one, which fails with RowNotFound when the row is gone
get_or_create_tag_select(w) ==
    /\ call[w].pc = "select_tag"
    /\ LET c == call[w]
           hit == { t \in tags : t.tag = c.labels[c.i] }
       IN  IF hit # {}
           THEN call' = [call EXCEPT ![w].pc = "link_to_tag",
                                     ![w].tag_id = (CHOOSE t \in hit : TRUE).id]
           ELSE Returned(w, c.op, FALSE, "RowNotFound")
    /\ UNCHANGED << store, now >>

\* mutant of ForeignKeysHold: foreign keys are not enforced
ForeignKeysOff(table, target_id, tag_id) == TRUE

\* the foreign keys of a junction row
ForeignKeysHold(table, target_id, tag_id) ==
    /\ \E t \in tags : t.id = tag_id
    /\ IF table = "url_tags"
       THEN \E r \in urls : r.id = target_id
       ELSE \E r \in snippets : r.id = target_id

\* link_to_tag: INSERT INTO {table} ({column}, tag_id) VALUES (?, ?)
\* ON CONFLICT({column}, tag_id) DO NOTHING, then the next label or return
link_to_tag(w) ==
    /\ call[w].pc = "link_to_tag"
    /\ LET c == call[w] IN
       IF ~ ForeignKeysHold(c.table, c.target_id, c.tag_id)
       THEN /\ Returned(w, c.op, FALSE, "ForeignKey")
            /\ UNCHANGED << url_tags, snippet_tags >>
       ELSE /\ IF c.table = "url_tags"
               THEN /\ url_tags' = url_tags \cup
                          { [url_id |-> c.target_id, tag_id |-> c.tag_id] }
                    /\ UNCHANGED snippet_tags
               ELSE /\ snippet_tags' = snippet_tags \cup
                          { [snippet_id |-> c.target_id, tag_id |-> c.tag_id] }
                    /\ UNCHANGED url_tags
            /\ IF c.i < Len(c.labels)
               THEN call' = [call EXCEPT ![w].i = @ + 1,
                                         ![w].pc = "get_or_create_tag"]
               ELSE Returned(w, c.op, TRUE,
                             IF c.op = "insert_snippet" THEN c.target_id ELSE 0)
    /\ UNCHANGED << urls, tags, snippets, seq, now >>

\* mutant of delete_url_by_url: the delete takes the tags it leaves unused
\* along
delete_url_by_url_sweeping(w, url) ==
    /\ ~ InFlight(w)
    /\ urls' = DeleteUrlRows(url)
    /\ url_tags' = CascadeUrlTags(DeleteUrlRows(url))
    /\ tags' = { t \in tags :
                    \/ \E j \in CascadeUrlTags(DeleteUrlRows(url)) : j.tag_id = t.id
                    \/ \E j \in snippet_tags : j.tag_id = t.id }
    /\ Returned(w, "delete_url_by_url", TRUE, 0)
    /\ UNCHANGED << snippets, snippet_tags, seq, now >>

\* delete_url_by_url(url): one DELETE, with the cascade to url_tags
delete_url_by_url(w, url) ==
    /\ ~ InFlight(w)
    /\ urls' = DeleteUrlRows(url)
    /\ url_tags' = CascadeUrlTags(DeleteUrlRows(url))
    /\ Returned(w, "delete_url_by_url", TRUE, 0)
    /\ UNCHANGED << tags, snippets, snippet_tags, seq, now >>

\* delete_snippet(id): one DELETE, with the cascade to snippet_tags
delete_snippet(w, snippet_id) ==
    /\ ~ InFlight(w)
    /\ snippets' = DeleteSnippetRows(snippet_id)
    /\ snippet_tags' = CascadeSnippetTags(DeleteSnippetRows(snippet_id))
    /\ Returned(w, "delete_snippet", TRUE, 0)
    /\ UNCHANGED << urls, tags, url_tags, seq, now >>

\* remove_unused_tags(): one DELETE
remove_unused_tags(w) ==
    /\ ~ InFlight(w)
    /\ tags' = UnusedTagsRemoved
    /\ Returned(w, "remove_unused_tags", TRUE, 0)
    /\ UNCHANGED << urls, url_tags, snippets, snippet_tags, seq, now >>

Step(w, U, SU, L) ==
        \/ \E u \in U : insert_url(w, u)
        \/ \E u \in U, l \in L : insert_tags(w, u, l)
        \/ \E u \in SU, b \in BodyInputs, l \in L :
              SnippetFits(MaxSnippetId) /\ insert_snippet(w, u, b, l)
        \/ get_or_create_tag_insert(w)
        \/ get_or_create_tag_select(w)
        \/ link_to_tag(w)
        \/ \E u \in U : delete_url_by_url(w, u)
        \/ \E id \in 1..MaxSnippetId : delete_snippet(w, id)
        \/ remove_unused_tags(w)

\* requests served one after the other
Next == \E w \in OneWorker : Step(w, UrlInputs, SourceUrlInputs, TagListInputs)
Spec == Init /\ [][Next]_vars

\* two requests in flight, interleaved between their statements
NextConc == \E w \in Workers : Step(w, ConcUrlInputs, SourceUrlInputs, ConcTagListInputs)
SpecConc == Init /\ [][NextConc]_vars

\* two requests in flight that only insert bookmarks and tags: no delete
\* and no sweep runs beside them
InsertStep(w) ==
        \/ \E u \in UrlInputs : insert_url(w, u)
        \/ \E u \in UrlInputs, l \in TagListInputs : insert_tags(w, u, l)
        \/ get_or_create_tag_insert(w)
        \/ get_or_create_tag_select(w)
        \/ link_to_tag(w)

NextInserts == \E w \in Workers : InsertStep(w)
SpecInserts == Init /\ [][NextInserts]_vars

\* snippets created and deleted one call after the other, two of them at
\* least, next to a bookmark of the same URL
SnippetStep(w) ==
        \/ \E u \in SourceUrlInputs, b \in BodyInputs, l \in SnippetTagListInputs :
              SnippetFits(MaxSnippetId + 1) /\ insert_snippet(w, u, b, l)
        \/ get_or_create_tag_insert(w)
        \/ get_or_create_tag_select(w)
        \/ link_to_tag(w)
        \/ \E id \in 1..(MaxSnippetId + 1) : delete_snippet(w, id)
        \/ \E u \in SourceUrlInputs : insert_url(w, u)

NextSnippets == \E w \in OneWorker : SnippetStep(w)
SpecSnippets == Init /\ [][NextSnippets]_vars

\* tag lists of up to two labels for the calls that race with deletes
LinkTagListInputs == SeqsUpTo(LabelInputs, MaxTags + 1)

\* two requests in flight on one URL: insert_tags with up to two labels
\* beside insert_url, the deletes and the sweep
LinkStep(w) ==
        \/ \E l \in LinkTagListInputs, u \in ConcUrlInputs : insert_tags(w, u, l)
        \/ get_or_create_tag_insert(w)
        \/ get_or_create_tag_select(w)
        \/ link_to_tag(w)
        \/ \E u \in ConcUrlInputs : insert_url(w, u)
        \/ \E u \in ConcUrlInputs : delete_url_by_url(w, u)
        \/ \E id \in 1..MaxSnippetId : delete_snippet(w, id)
        \/ remove_unused_tags(w)

NextLinks == \E w \in Workers : LinkStep(w)
SpecLinks == Init /\ [][NextLinks]_vars

\* CURRENT_TIMESTAMP moves on by one second
clock_tick ==
    /\ now < MaxNow
    /\ now' = now + 1
    /\ UNCHANGED << store, call >>

\* bookmarks created and deleted one call after the other while the clock
\* runs: some in the same second, some in different seconds
ClockStep(w) ==
        \/ \E u \in QueryUrlInputs : insert_url(w, u)
        \/ \E u \in QueryUrlInputs : delete_url_by_url(w, u)
        \/ clock_tick

NextClock == \E w \in OneWorker : ClockStep(w)
SpecClock == Init /\ [][NextClock]_vars

(* ------------------------------------------------------------------ *)
(* The HTTP handlers (src/services/api.rs) over the store calls, with  *)
(* statements that may fail in the backend                             *)
(* ------------------------------------------------------------------ *)

\* the `tags` field of the request bodies: one label, the empty string, and
\* a label followed by a comma and a blank
TagsTextInputs == { << "x" >>, << >>, << "x", ",", " " >> }

\* str::trim, for the blank as the only whitespace
RECURSIVE Trim(_)
Trim(text) ==
    IF Len(text) = 0 THEN text
    ELSE IF Head(text) = " " THEN Trim(Tail(text))
    ELSE IF text[Len(text)] = " " THEN Trim(SubSeq(text, 1, Len(text) - 1))
    ELSE text

\* req.tags.split(',').map(|tag| tag.trim()).collect()
RequestTags(text) ==
    LET pieces == Split(text, Comma)
    IN  [ i \in DOMAIN pieces |-> Trim(pieces[i]) ]

\* POST /urls/url
insert_record(w, url) == insert_url(w, url)

\* POST /urls/tags
api_insert_tags(w, url, text) == insert_tags(w, url, RequestTags(text))

\* POST /snippets
api_insert_snippet(w, url, body, text) ==
    insert_snippet(w, url, body, RequestTags(text))

\* POST /snippets/delete: the store's delete_snippet and nothing after it
api_delete_snippet(w, snippet_id) == delete_snippet(w, snippet_id)

\* what a handler's caller gets once the handler is done; logged is the
\* line written to stderr for an error that is not returned
Responded(w, op, ok, val, logged) ==
    call' = [call EXCEPT ![w] = [pc |-> "returned", op |-> op, ok |-> ok,
                                 val |-> val, logged |-> logged]]

\* POST /urls/delete/by-url, first await: database::delete_url_by_url; Ok
\* leads to the sweep, Err to the response
delete_record_by_url(w, url) ==
    /\ ~ InFlight(w)
    /\ \/ /\ urls' = DeleteUrlRows(url)
          /\ url_tags' = CascadeUrlTags(DeleteUrlRows(url))
          /\ call' = [call EXCEPT ![w] =
                        [pc |-> "remove_unused_tags", op |-> "delete_record_by_url",
                         url |-> url]]
       \/ /\ Responded(w, "delete_record_by_url", FALSE, "Backend", "Failed to delete URL")
          /\ UNCHANGED << urls, url_tags >>
    /\ UNCHANGED << tags, snippets, snippet_tags, seq, now >>

\* mutant of SweepErrorHandled: the error of the sweep is returned
SweepErrorPropagated(w) ==
    Responded(w, "delete_record_by_url", FALSE, "Backend", "Failed to remove unused tags")

\* if let Err(err) = remove_unused_tags(..).await { eprintln!(..) }
\* HttpResponse::Ok()
SweepErrorHandled(w) ==
    Responded(w, "delete_record_by_url", TRUE, 0, "Failed to remove unused tags")

\* POST /urls/delete/by-url, second await: database::remove_unused_tags,
\* then the response
delete_record_by_url_sweep(w) ==
    /\ call[w].pc = "remove_unused_tags"
    /\ \/ /\ tags' = UnusedTagsRemoved
          /\ Responded(w, "delete_record_by_url", TRUE, 0, "")
       \/ /\ SweepErrorHandled(w)
          /\ UNCHANGED tags
    /\ UNCHANGED << urls, url_tags, snippets, snippet_tags, seq, now >>

\* the positions of a call at which the next statement is one of the loop
StatementPending(w) ==
    call[w].pc \in { "get_or_create_tag", "select_tag", "link_to_tag" }

\* mutant of backend_error: the error is dropped and the loop goes on with
\* the next label
backend_error_ignored(w) ==
    /\ StatementPending(w)
    /\ LET c == call[w] IN
       IF c.i < Len(c.labels)
       THEN call' = [call EXCEPT ![w].i = @ + 1, ![w].pc = "get_or_create_tag"]
       ELSE Returned(w, c.op, TRUE, 0)
    /\ UNCHANGED << store, now >>

\* the `?` after each await of the loop: a statement that fails in the
\* backend writes nothing and its error is returned at once
backend_error(w) ==
    /\ StatementPending(w)
    /\ Returned(w, call[w].op, FALSE, "Backend")
    /\ UNCHANGED << store, now >>

\* the same for the first statement of a store call
first_statement_fails(w, op) ==
    /\ ~ InFlight(w)
    /\ Returned(w, op, FALSE, "Backend")
    /\ UNCHANGED << store, now >>

ApiStep(w) ==
        \/ \E u \in ConcUrlInputs : insert_record(w, u)
        \/ \E u \in ConcUrlInputs, t \in TagsTextInputs : api_insert_tags(w, u, t)
        \/ \E u \in SourceUrlInputs, b \in BodyInputs, t \in TagsTextInputs :
              SnippetFits(MaxSnippetId) /\ api_insert_snippet(w, u, b, t)
        \/ get_or_create_tag_insert(w)
        \/ get_or_create_tag_select(w)
        \/ link_to_tag(w)
        \/ \E id \in 1..MaxSnippetId : api_delete_snippet(w, id)
        \/ \E u \in ConcUrlInputs : delete_record_by_url(w, u)
        \/ delete_record_by_url_sweep(w)
        \/ backend_error(w)
        \/ \E op \in { "insert_url", "insert_tags", "insert_snippet", "delete_snippet" } :
              first_statement_fails(w, op)

\* requests arriving at the handlers, served one after the other
NextApi == \E w \in OneWorker : ApiStep(w)
SpecApi == Init /\ [][NextApi]_vars

(* ------------------------------------------------------------------ *)
(* Vocabulary of the properties                                        *)
(* ------------------------------------------------------------------ *)

\* no call is between two of its statements
Quiescent == \A w \in Workers : ~ InFlight(w)

HasComma(text) == \E i \in 1..Len(text) : text[i] = Comma

\* no stored bookmark URL holds a comma
CommaFreeUrls == \A r \in urls : ~ HasComma(r.url)

BookmarksOf(url) == { r \in urls : r.url_hash = calculate_url_hash(url) }

TagsOfUrl(r) == { j.tag_id : j \in { x \in url_tags : x.url_id = r.id } }
TagsOfSnippet(r) == { j.tag_id : j \in { x \in snippet_tags : x.snippet_id = r.id } }

\* junction rows of either kind that point to a tag
LinksOfTag(t) ==
    { j \in url_tags : j.tag_id = t.id } \cup { j \in snippet_tags : j.tag_id = t.id }

Groups == Range(get_tags_with_urls_and_snippets)

\* the groups whose label is the empty string
UntaggedGroups == { g \in Groups : g.tag = <<>> }

\* the groups with a label
LabelGroups == { g \in Groups : g.tag # <<>> }

ListsUrl(g, url) == url \in Range(g.urls)
ListsSnippet(g, r) == SnippetRecord(r) \in Range(g.snippets)

(* ------------------------------------------------------------------ *)
(* C1: insert_url is an insert-or-fetch                                *)
(* ------------------------------------------------------------------ *)

\* at most one urls row per fingerprint
UniqueFingerprint ==
    \A r1, r2 \in urls : r1.url_hash = r2.url_hash => r1 = r2

\* an insert_url(u) step returns the id of the one row that holds u's
\* fingerprint afterwards; when such a row was there before the call, the
\* step returns that row's id and changes no row of any table
InsertUrlFetches ==
    \A w \in Workers, u \in UrlInputs :
        insert_url(w, u) =>
            /\ HasReturned(w, "insert_url")' /\ call'[w].ok
            /\ \E r \in urls' :
                  /\ r.url = u /\ r.id = call'[w].val
                  /\ \A x \in urls' : x.url_hash = calculate_url_hash(u) => x = r
            /\ \A r \in BookmarksOf(u) :
                  /\ call'[w].val = r.id
                  /\ store' = store

\* C1: calling insert_url(u) twice with no delete of u in between returns
\* the same id both times, leaves exactly one row with u's fingerprint, and
\* the second call changes no row.
C1_InsertUrlIdempotent ==
    /\ []UniqueFingerprint
    /\ [][InsertUrlFetches]_vars

\* insert_url has just returned the id of the first bookmark although a
\* second bookmark was created after it: a repeated insert of a stored URL
C1_Witness ==
    /\ HasReturned(1, "insert_url") /\ call[1].ok /\ call[1].val = 1
    /\ seq.urls = 2
    /\ \E r \in urls : r.id = 1
    /\ \E r \in urls : r.id = 2

(* ------------------------------------------------------------------ *)
(* C2: interleaved insert_url calls for one URL                        *)
(* ------------------------------------------------------------------ *)

\* the URL row a call in flight obtained from its insert_url statement
HoldsUrlId(w, id) ==
    \/ InFlight(w) /\ call[w].op = "insert_tags" /\ call[w].target_id = id
    \/ HasReturned(w, "insert_url") /\ call[w].ok /\ call[w].val = id

\* every insert_url statement, alone or inside insert_tags, succeeds and
\* yields the id of the single row with the URL's fingerprint
UpsertYieldsTheRow ==
    \A w \in Workers, u \in ConcUrlInputs :
        /\ insert_url(w, u) =>
              /\ call'[w].ok
              /\ BookmarksOf(u)' = { r \in urls' : r.id = call'[w].val }
              /\ Cardinality(BookmarksOf(u)') = 1
        /\ \A l \in ConcTagListInputs :
              (insert_tags(w, u, l) /\ Len(l) > 0) =>
                  /\ BookmarksOf(u)' = { r \in urls' : r.id = call'[w].target_id }
                  /\ Cardinality(BookmarksOf(u)') = 1

\* two callers that hold an id for the URL of a row still stored hold the
\* same id
CallersAgree ==
    \A w1, w2 \in Workers :
        \A r1, r2 \in urls :
            ( /\ HoldsUrlId(w1, r1.id) /\ HoldsUrlId(w2, r2.id)
              /\ r1.url = r2.url ) => r1.id = r2.id

JunctionsReferToRows ==
    /\ \A j \in url_tags :
          /\ \E r \in urls : r.id = j.url_id
          /\ \E t \in tags : t.id = j.tag_id
    /\ \A j \in snippet_tags :
          /\ \E r \in snippets : r.id = j.snippet_id
          /\ \E t \in tags : t.id = j.tag_id

\* a step that removes a bookmark or a snippet removes, in that step, every
\* junction row of the removed item and no junction row of another item
DeleteCascades ==
    /\ \A j \in url_tags :
          (j \in url_tags') <=> (\E r \in urls' : r.id = j.url_id)
    /\ \A j \in snippet_tags :
          (j \in snippet_tags') <=> (\E r \in snippets' : r.id = j.snippet_id)

\* C3: every url_tags row references an existing bookmark and tag, every
\* snippet_tags row an existing snippet and tag, in every reachable state;
\* deleting a bookmark or snippet removes its junction rows in the same step.
C3_JunctionIntegrity ==
    /\ []JunctionsReferToRows
    /\ [][\A w \in Workers :
            ( \/ \E u \in ConcUrlInputs : delete_url_by_url(w, u)
              \/ \E id \in 1..MaxSnippetId : delete_snippet(w, id) )
            => DeleteCascades]_vars

\* a bookmark delete has just returned, and a call that had linked a label
\* to the only bookmark ever stored returned success before it: the delete
\* removed a bookmark that had a junction row, and none is left
C3_Witness ==
    /\ HasReturned(1, "delete_url_by_url")
    /\ HasReturned(2, "insert_tags") /\ call[2].ok
    /\ seq.urls = 1 /\ urls = {} /\ url_tags = {}
    /\ tags # {}

(* ------------------------------------------------------------------ *)
(* C5: one Tag row per label, one junction row per item                *)
(* ------------------------------------------------------------------ *)

\* at most one tags row per label
UniqueLabel ==
    \A t1, t2 \in tags : t1.tag = t2.tag => t1 = t2

\* the label a call in its loop is working on
CurrentLabel(w) == call[w].labels[call[w].i]

\* get_or_create_tag on a stored label writes no tags row and hands the id
\* of the stored row to link_to_tag
ResolvesToExistingTag ==
    \A w \in OneWorker :
        /\ ( get_or_create_tag_insert(w) /\ TagConflict(CurrentLabel(w)) ) =>
               /\ tags' = tags
               /\ call'[w].pc = "select_tag"
        /\ get_or_create_tag_select(w) =>
               /\ tags' = tags
               /\ call'[w].pc = "link_to_tag"
               /\ \E t \in tags : t.tag = CurrentLabel(w) /\ t.id = call'[w].tag_id

\* link_to_tag writes the junction row of the item and the one tag that
\* carries the label, and touches no other junction row
LinksItemToLabel ==
    \A w \in OneWorker :
        link_to_tag(w) =>
            LET c == call[w]
                t == CHOOSE x \in tags : x.tag = CurrentLabel(w)
            IN  /\ c.tag_id = t.id
                /\ IF c.table = "url_tags"
                   THEN /\ url_tags' = url_tags \cup
                              { [url_id |-> c.target_id, tag_id |-> t.id] }
                        /\ snippet_tags' = snippet_tags
                   ELSE /\ snippet_tags' = snippet_tags \cup
                              { [snippet_id |-> c.target_id, tag_id |-> t.id] }
                        /\ url_tags' = url_tags

\* no store call of the sequential service returns an error
NoCallFails ==
    \A w \in OneWorker : call[w].pc = "returned" => call[w].ok

\* C5: associating a label with two distinct items leaves exactly one Tag
\* row with that label and one junction row per item; associating a label
\* that is already stored resolves to the stored Tag id, never errors and
\* never creates a second Tag row.
C5_OneTagPerLabel ==
    /\ [](UniqueLabel /\ NoCallFails)
    /\ [][ResolvesToExistingTag /\ LinksItemToLabel]_vars

\* insert_snippet has just returned after linking its snippet to a label
\* that a bookmark carried already: one tags row, two junction rows
C5_Witness ==
    /\ HasReturned(1, "insert_snippet") /\ call[1].ok
    /\ \E t \in tags :
          /\ t.tag = << "x" >>
          /\ \A x \in tags : x.tag = << "x" >> => x = t
          /\ \E u \in urls, r \in snippets :
                LinksOfTag(t) = { [url_id |-> u.id, tag_id |-> t.id],
                                  [snippet_id |-> r.id, tag_id |-> t.id] }

(* ------------------------------------------------------------------ *)
(* C4: the sweep of unused tags                                        *)
(* ------------------------------------------------------------------ *)

\* the tags row is listed by View B with every item linked to it
ListedWithItems(t) ==
    \E g \in Groups :
        /\ g.tag = t.tag
        /\ \A r \in urls : t.id \in TagsOfUrl(r) => ListsUrl(g, r.url)
        /\ \A r \in snippets : t.id \in TagsOfSnippet(r) => ListsSnippet(g, r)

SweepIsExact ==
    \A w \in OneWorker :
        remove_unused_tags(w) =>
            /\ tags' = { t \in tags : LinksOfTag(t) # {} }
            /\ << urls, url_tags, snippets, snippet_tags >>' =
                   << urls, url_tags, snippets, snippet_tags >>
            /\ UnusedTagsRemoved' = tags'
            /\ \A t \in tags' : ListedWithItems(t)'

\* C4: remove_unused_tags deletes exactly the Tag rows without a junction
\* row of either kind; a tag that survives is still listed with its items
\* in View B; Bookmark, Snippet and junction rows are unchanged; a second
\* sweep right after the first changes nothing.
C4_SweepExact == [][SweepIsExact]_vars

(* ------------------------------------------------------------------ *)
(* C6, C7, C8: the untagged group of View B                            *)
(* ------------------------------------------------------------------ *)

\* C6: every Bookmark without a url_tags row is listed in the untagged
\* group of View B and in no other group, whatever snippets exist (stated
\* for the states between requests and for stored URLs without a comma).
C6_UntaggedBookmarkListed ==
    (Quiescent /\ CommaFreeUrls) =>
        \A r \in urls :
            TagsOfUrl(r) = {} =>
                /\ \E g \in UntaggedGroups : ListsUrl(g, r.url)
                /\ \A g \in LabelGroups : ~ ListsUrl(g, r.url)

\* C7: every Snippet without a snippet_tags row is listed, as a full
\* record, in the untagged group of View B and in no other group, whatever
\* bookmarks exist (stated for the states between requests).
C7_UntaggedSnippetListed ==
    Quiescent =>
        \A r \in snippets :
            TagsOfSnippet(r) = {} =>
                /\ \E g \in UntaggedGroups : ListsSnippet(g, r)
                /\ \A g \in LabelGroups : ~ ListsSnippet(g, r)

\* C8: no Bookmark with a url_tags row and no Snippet with a snippet_tags
\* row is listed in the untagged group of View B (stated for the states
\* between requests).
C8_TaggedNotInUntagged ==
    Quiescent =>
        \A g \in UntaggedGroups :
            /\ \A r \in urls : TagsOfUrl(r) # {} => ~ ListsUrl(g, r.url)
            /\ \A r \in snippets : TagsOfSnippet(r) # {} => ~ ListsSnippet(g, r)

(* ------------------------------------------------------------------ *)
(* C9: View A against View B                                           *)
(* ------------------------------------------------------------------ *)

\* the (bookmark URL, label) pairs of View A
PairsOfViewA ==
    UNION { { << e.url, l >> : l \in Range(e.tags) } :
              e \in Range(get_urls_with_tags) }

\* the (bookmark URL, label) pairs of the per-tag groups of View B
PairsOfViewB ==
    UNION { { << u, g.tag >> : u \in Range(g.urls) } : g \in LabelGroups }

UntaggedInViewA ==
    { e.url : e \in { x \in Range(get_urls_with_tags) : x.tags = << >> } }

UntaggedInViewB == UNION { Range(g.urls) : g \in UntaggedGroups }

\* C9: the (bookmark URL, tag label) pairs of View A equal those of the
\* per-tag groups of View B, and a bookmark has an empty tag list in View A
\* exactly when the untagged group of View B lists it (stated for the
\* states between requests and for stored URLs without a comma).
C9_ViewsAgree ==
    (Quiescent /\ CommaFreeUrls) =>
        /\ PairsOfViewA = PairsOfViewB
        /\ UntaggedInViewA = UntaggedInViewB

(* ------------------------------------------------------------------ *)
(* C10: the labels of View B                                           *)
(* ------------------------------------------------------------------ *)

\* the labels of the groups that come from a tags row
ListedLabels == { g.tag : g \in { x \in Groups : ~ x.synthetic } }

\* the labels attached to at least one bookmark or snippet
UsedLabels == { t.tag : t \in { x \in tags : LinksOfTag(x) # {} } }

\* every bookmark ever stored is still stored
NoBookmarkDeleted == Cardinality(urls) = seq.urls

\* C10: the non-synthetic group labels of View B are exactly the labels
\* attached to at least one Bookmark or Snippet (stated for the states
\* between requests in which no bookmark has been deleted so far).
C10_ListedLabelsAreUsed ==
    (Quiescent /\ NoBookmarkDeleted) => ListedLabels = UsedLabels

(* ------------------------------------------------------------------ *)
(* C11: the per-tag groups of View B                                   *)
(* ------------------------------------------------------------------ *)

NoDuplicates(q) == \A i, j \in DOMAIN q : q[i] = q[j] => i = j

\* the group at position i of the view is the group of the tags row t and
\* lists exactly the items linked to t, each once
IsGroupOf(view, i, t) ==
    /\ view[i].tag = t.tag
    /\ ~ view[i].synthetic
    /\ NoDuplicates(view[i].urls)
    /\ Range(view[i].urls) = { r.url : r \in { u \in urls : t.id \in TagsOfUrl(u) } }
    /\ NoDuplicates(view[i].snippets)
    /\ Range(view[i].snippets) =
           { SnippetRecord(r) : r \in { x \in snippets : t.id \in TagsOfSnippet(x) } }

\* C11: for every Tag its View B group lists exactly the URLs of the
\* Bookmarks linked to it and exactly the full records of the Snippets
\* linked to it, each once; the groups come in ascending label order with
\* the untagged group first.
C11_TagGroupsExact ==
    LET view == get_tags_with_urls_and_snippets
    IN  /\ \A t \in tags : \E i \in DOMAIN view : IsGroupOf(view, i, t)
        /\ \A i, j \in DOMAIN view : i < j => ~ StrLess(view[j].tag, view[i].tag)
        /\ view[1].synthetic

(* ------------------------------------------------------------------ *)
(* C17: what delete_url_by_url touches                                 *)
(* ------------------------------------------------------------------ *)

\* a delete_url_by_url(u) step removes the urls rows whose URL is u and the
\* url_tags rows of those bookmarks, nothing else, and returns success
DeleteUrlFrame ==
    \A w \in OneWorker, u \in UrlInputs :
        delete_url_by_url(w, u) =>
            /\ urls' = { r \in urls : r.url # u }
            /\ url_tags' = { j \in url_tags :
                               \A r \in urls : r.url = u => j.url_id # r.id }
            /\ << snippets, snippet_tags, tags, seq >>' =
                   << snippets, snippet_tags, tags, seq >>
            /\ HasReturned(w, "delete_url_by_url")' /\ call'[w].ok
            /\ (\A r \in urls : r.url # u) => store' = store

\* C17: delete_url_by_url(u) removes exactly the Bookmark whose URL is u
\* with its url_tags rows and leaves every other Bookmark, every Snippet
\* (also those with source URL u), every snippet_tags row and every Tag
\* unchanged; without such a Bookmark it returns success and changes nothing.
C17_DeleteUrlFrame == [][DeleteUrlFrame]_vars

\* a bookmark delete has just returned: the bookmark "a" is gone, while a
\* tagged snippet with source URL "a", its tag and the other bookmark, whose
\* URL starts with "a", are still stored
C17_Witness ==
    /\ HasReturned(1, "delete_url_by_url") /\ call[1].ok
    /\ seq.urls = 2
    /\ \A r \in urls : r.url = << "a", ",", "b" >>
    /\ urls # {}
    /\ \E r \in snippets : r.url = << "a" >> /\ TagsOfSnippet(r) # {}

(* ------------------------------------------------------------------ *)
(* C20: insert_tags with an empty label list                           *)
(* ------------------------------------------------------------------ *)

EmptyListIsNoOp ==
    \A w \in OneWorker, u \in UrlInputs :
        insert_tags(w, u, << >>) =>
            /\ store' = store
            /\ HasReturned(w, "insert_tags")' /\ call'[w].ok

\* C20: insert_tags(url, labels) with an empty label list returns success
\* and changes nothing: no Bookmark, Tag or junction row is created or
\* removed.
C20_EmptyListNoOp == [][EmptyListIsNoOp]_vars

\* insert_tags has just returned success in a store that holds a bookmark
\* but has never held a tag: the call had no label
C20_Witness ==
    /\ HasReturned(1, "insert_tags") /\ call[1].ok
    /\ seq.tags = 0
    /\ Cardinality(urls) = 1 /\ seq.urls = 1

(* ------------------------------------------------------------------ *)
(* C19: interleaved insert_tags calls for one URL and one label        *)
(* ------------------------------------------------------------------ *)

\* no insert call of either worker returns an error
NoInsertFails ==
    \A w \in Workers : call[w].pc = "returned" => call[w].ok

\* the step by which insert_tags returns leaves the bookmark it obtained
\* stored and linked to the tag of every label of the call
ReturnsFullyLinked ==
    \A w \in Workers :
        ( link_to_tag(w) /\ HasReturned(w, "insert_tags")' ) =>
            /\ \E r \in urls' : r.id = call[w].target_id
            /\ \A k \in DOMAIN call[w].labels :
                  \E t \in tags' :
                      /\ t.tag = call[w].labels[k]
                      /\ [url_id |-> call[w].target_id, tag_id |-> t.id] \in url_tags'

\* without deletes no row ever disappears
RowsStay ==
    /\ urls \subseteq urls'
    /\ tags \subseteq tags'
    /\ url_tags \subseteq url_tags'

\* C19: under any interleaving of two insert_tags calls for the same URL
\* and the same label, with no delete or sweep beside them, both calls
\* return success and the store holds one Bookmark for the URL, one Tag row
\* for the label and one url_tags row for the pair.
C19_ConcurrentInsertTags ==
    /\ [](NoInsertFails /\ UniqueFingerprint /\ UniqueLabel)
    /\ [][ReturnsFullyLinked /\ RowsStay]_vars

\* worker 1 has returned success from insert_tags while worker 2 is still
\* about to link the same bookmark to the same tag; the store holds the one
\* bookmark, the one tag and the one junction row
C19_Witness ==
    /\ HasReturned(1, "insert_tags") /\ call[1].ok
    /\ call[2].pc = "link_to_tag" /\ call[2].op = "insert_tags"
    /\ Cardinality(urls) = 1 /\ Cardinality(tags) = 1
    /\ url_tags = { [url_id |-> call[2].target_id, tag_id |-> call[2].tag_id] }

(* ------------------------------------------------------------------ *)
(* C12, C13: empty labels                                              *)
(* ------------------------------------------------------------------ *)

\* C12: View B holds exactly one group whose label is the empty string,
\* and that group is the synthetic untagged group, never the group of a
\* Tag row.
C12_OneUntaggedGroup ==
    LET view == get_tags_with_urls_and_snippets
    IN  /\ Cardinality({ i \in DOMAIN view : view[i].tag = << >> }) = 1
        /\ \A i \in DOMAIN view : view[i].tag = << >> => view[i].synthetic

\* C13: no Tag row with an empty label exists, and no junction row points
\* to such a tag: labels that are empty after trimming are ignored.
C13_NoEmptyLabelStored ==
    /\ \A t \in tags : t.tag # << >>
    /\ \A j \in url_tags \cup snippet_tags :
          \A t \in tags : t.id = j.tag_id => t.tag # << >>

(* ------------------------------------------------------------------ *)
(* C14, C15, C16: the delete handlers and the sweep                    *)
(* ------------------------------------------------------------------ *)

\* no Tag without a junction row of either kind
NoOrphanTag == \A t \in tags : LinksOfTag(t) # {}

\* C14: when the delete-snippet handler returns success, no orphan Tag
\* remains in the store (stated for requests that start in a store without
\* an orphan Tag).
C14_SnippetDeleteSweeps ==
    [][\A w \in OneWorker, id \in 1..MaxSnippetId :
          ( api_delete_snippet(w, id) /\ call'[w].ok /\ NoOrphanTag )
              => NoOrphanTag']_vars

\* the handler answers success without a logged sweep error only by the
\* step that ran the sweep, the sweep is awaited only after the delete of
\* the same request, and after that step no orphan Tag is stored
SweepRanAfterDelete ==
    \A w \in OneWorker :
        /\ ( /\ HasReturned(w, "delete_record_by_url")'
             /\ call' # call
             /\ call'[w].ok
             /\ call'[w].logged = "" ) =>
                /\ delete_record_by_url_sweep(w)
                /\ NoOrphanTag'
        /\ ( call'[w].pc = "remove_unused_tags" /\ call' # call ) =>
                \E u \in ConcUrlInputs :
                    /\ delete_record_by_url(w, u)
                    /\ BookmarksOf(u)' = {}

\* C15: when a delete-bookmark-by-URL request returns success and the
\* sweep did not fail, remove_unused_tags has run after the delete and no
\* orphan Tag remains at response time.
C15_BookmarkDeleteSweeps == [][SweepRanAfterDelete]_vars

\* the request has answered success with nothing logged; the one bookmark
\* and the one tag ever stored are gone
C15_Witness ==
    /\ HasReturned(1, "delete_record_by_url") /\ call[1].ok /\ call[1].logged = ""
    /\ seq.urls = 1 /\ urls = {}
    /\ seq.tags = 1 /\ tags = {}
    /\ seq.snippets = 0

\* a failed sweep leaves the request a success with the error logged and
\* the deleted bookmark deleted; a failed delete answers failure, writes
\* nothing and does not reach the sweep
SweepErrorNotReturned ==
    \A w \in OneWorker :
        /\ ( delete_record_by_url_sweep(w) /\ call'[w].logged # "" ) =>
                /\ call'[w].ok
                /\ call'[w].logged = "Failed to remove unused tags"
                /\ store' = store
                /\ BookmarksOf(call[w].url)' = {}
        /\ \A u \in ConcUrlInputs :
              ( delete_record_by_url(w, u) /\ call'[w].pc = "returned" ) =>
                  /\ ~ call'[w].ok
                  /\ store' = store

\* C16: if the bookmark delete succeeds but the sweep fails, the request
\* still reports success, the Bookmark and its junction rows stay deleted
\* and the sweep error is only logged; if the delete fails, the sweep is
\* not run and a failure is reported.
C16_SweepFailureTolerated == [][SweepErrorNotReturned]_vars

\* the request has answered success with the sweep error logged: the
\* bookmark is gone and its tag is left behind as an orphan
C16_Witness ==
    /\ HasReturned(1, "delete_record_by_url") /\ call[1].ok
    /\ call[1].logged = "Failed to remove unused tags"
    /\ seq.urls = 1 /\ urls = {} /\ url_tags = {}
    /\ \E t \in tags : LinksOfTag(t) = {}

(* ------------------------------------------------------------------ *)
(* C18: a backend error inside insert_tags / insert_snippet            *)
(* ------------------------------------------------------------------ *)

\* in the given tables the item of the call c is stored and the labels
\* before the current one are linked to it
EarlierWritesStored(c, urlRows, snippetRows, tagRows, urlTagRows, snippetTagRows) ==
    LET linked ==
          IF c.table = "url_tags"
          THEN { j.tag_id : j \in { x \in urlTagRows : x.url_id = c.target_id } }
          ELSE { j.tag_id : j \in { x \in snippetTagRows : x.snippet_id = c.target_id } }
    IN  /\ IF c.table = "url_tags"
           THEN \E r \in urlRows : r.id = c.target_id
           ELSE \E r \in snippetRows : r.id = c.target_id
        /\ \A k \in 1..(c.i - 1) :
              \E t \in tagRows : t.tag = c.labels[k] /\ t.id \in linked

\* a statement of the loop that fails makes the call return that error at
\* once, with the tables as the earlier statements left them; a first
\* statement that fails returns the error with nothing written
FirstErrorReturned ==
    \A w \in OneWorker :
        /\ backend_error(w) =>
              /\ call'[w].pc = "returned" /\ call'[w].op = call[w].op
              /\ ~ call'[w].ok /\ call'[w].val = "Backend"
              /\ store' = store
              /\ EarlierWritesStored(call[w], urls', snippets', tags',
                                     url_tags', snippet_tags')
              /\ ~ StatementPending(w)'
        /\ \A op \in { "insert_tags", "insert_snippet" } :
              first_statement_fails(w, op) =>
                  /\ ~ call'[w].ok
                  /\ store' = store
                  /\ ~ StatementPending(w)'

\* C18: a backend error at any step of insert_tags or insert_snippet is
\* returned as the call's result, none of the remaining steps runs, and the
\* writes of the earlier steps stay in the store without rollback.
C18_FirstErrorAborts == [][FirstErrorReturned]_vars

\* insert_snippet has returned a backend error: its snippet is stored with
\* the labels "x" and "", linked to "x" only, and no Tag "" was created
C18_Witness ==
    /\ HasReturned(1, "insert_snippet") /\ ~ call[1].ok /\ call[1].val = "Backend"
    /\ seq.snippets = 1
    /\ \E r \in snippets :
          /\ from_json(r.tags) = << << "x" >>, << >> >>
          /\ \E t \in tags : t.tag = << "x" >> /\ TagsOfSnippet(r) = { t.id }
    /\ \A t \in tags : t.tag # << >>

(* ------------------------------------------------------------------ *)
(* C21: View A lists every bookmark once, with its linked labels       *)
(* ------------------------------------------------------------------ *)

\* the labels of the tags linked to a bookmark through url_tags
LabelsOfUrl(u) == { t.tag : t \in { x \in tags : x.id \in TagsOfUrl(u) } }

\* the entries of a View A result that carry the URL of a bookmark
EntriesOf(view, u) == { i \in DOMAIN view : view[i].url = u.url }

\* C21: whatever get_urls_with_tags returns has one entry per stored
\* bookmark and no other entry, and the tags of the entry of a bookmark are
\* the labels of the tags linked to it, each listed once (the empty list
\* when none is linked).
C21_ViewAExact ==
    \A view \in get_urls_with_tags_results :
        /\ Len(view) = Cardinality(urls)
        /\ \A u \in urls :
              /\ Cardinality(EntriesOf(view, u)) = 1
              /\ \A i \in EntriesOf(view, u) :
                    /\ NoDuplicates(view[i].tags)
                    /\ Range(view[i].tags) = LabelsOfUrl(u)

(* ------------------------------------------------------------------ *)
(* C22: get_all_urls and View A are ordered newest first               *)
(* ------------------------------------------------------------------ *)

\* the stored bookmark a View A entry stands for
BookmarkOfEntry(e) == CHOOSE u \in urls : u.url = e.url

\* every stored bookmark is in the list once and nothing else is
EachBookmarkOnce(rows) ==
    /\ Len(rows) = Cardinality(urls)
    /\ Range(rows) = urls

\* no row comes after a row that an earlier insert_url call created: ids
\* are handed out in the order of the creating calls
NewestFirst(rows) ==
    \A i, j \in DOMAIN rows : i < j => rows[i].id > rows[j].id

\* C22: every result get_all_urls may return, and every result View A may
\* return, holds each stored bookmark exactly once, and a bookmark created
\* by a later insert_url call never stands after one created by an earlier
\* call.
C22_NewestFirst ==
    /\ \A rows \in get_all_urls :
          EachBookmarkOnce(rows) /\ NewestFirst(rows)
    /\ \A view \in get_urls_with_tags_results :
          LET rows == [ i \in DOMAIN view |-> BookmarkOfEntry(view[i]) ]
          IN  EachBookmarkOnce(rows) /\ NewestFirst(rows)

(* ------------------------------------------------------------------ *)
(* C23: insert_snippet always creates a snippet with a fresh id        *)
(* ------------------------------------------------------------------ *)

\* the first statement of insert_snippet adds one row with the given URL
\* and body, under an id that no stored row has and that is above every id
\* handed out so far, and hands that id to the rest of the call
SnippetCreated ==
    \A w \in OneWorker, u \in SourceUrlInputs, b \in BodyInputs,
       l \in SnippetTagListInputs :
        insert_snippet(w, u, b, l) =>
            \E r \in snippets' :
                /\ r \notin snippets
                /\ snippets' = snippets \cup {r}
                /\ r.url = u /\ r.snippet = b
                /\ \A x \in snippets : x.id # r.id
                /\ r.id > seq.snippets
                /\ IF Len(l) = 0
                   THEN HasReturned(w, "insert_snippet")' /\ call'[w].val = r.id
                   ELSE call'[w].target_id = r.id

\* the ids handed out: none is above the counter, which never goes down
SnippetIdsBelowCounter == \A r \in snippets : r.id <= seq.snippets
SnippetCounterGrows == seq'.snippets >= seq.snippets

\* the step by which insert_snippet returns leaves the snippet stored and
\* linked to the tag of every label of the call, and returns its id
SnippetReturnsLinked ==
    \A w \in OneWorker :
        ( link_to_tag(w) /\ HasReturned(w, "insert_snippet")' ) =>
            /\ call'[w].ok /\ call'[w].val = call[w].target_id
            /\ \E r \in snippets' : r.id = call[w].target_id
            /\ \A k \in DOMAIN call[w].labels :
                  \E t \in tags' :
                      /\ t.tag = call[w].labels[k]
                      /\ [snippet_id |-> call[w].target_id, tag_id |-> t.id]
                             \in snippet_tags'

\* no step of an insert_snippet call touches the bookmarks
SnippetCallKeepsBookmarks ==
    \A w \in OneWorker :
        \/ \E u \in SourceUrlInputs, b \in BodyInputs, l \in SnippetTagListInputs :
               insert_snippet(w, u, b, l)
        \/ (InFlight(w) /\ call[w].op = "insert_snippet")
        => (urls' = urls /\ url_tags' = url_tags /\ seq'.urls = seq.urls)

\* C23: every insert_snippet call adds a Snippet row whose id no stored
\* snippet has and no earlier snippet ever had, also when the URL, the body
\* and the labels are those of a stored snippet; it returns after linking
\* the snippet to every label it was given, and no step of it creates,
\* changes or removes a Bookmark.
C23_InsertSnippetFresh ==
    /\ []SnippetIdsBelowCounter
    /\ [][SnippetCreated /\ SnippetCounterGrows /\ SnippetReturnsLinked
             /\ SnippetCallKeepsBookmarks]_vars

\* the second of two insert_snippet calls with the same URL, body and
\* labels has returned id 2: two snippets of the same content are stored
\* next to the bookmark of that URL, both linked to the tag of the label
C23_Witness ==
    /\ HasReturned(1, "insert_snippet") /\ call[1].ok /\ call[1].val = 2
    /\ { r.id : r \in snippets } = { 1, 2 }
    /\ \A r \in snippets :
          /\ r.url = <<"a">> /\ r.snippet = <<"s">>
          /\ from_json(r.tags) = << <<"x">> >>
          /\ TagsOfSnippet(r) # {}
    /\ \E u \in urls : u.url = <<"a">>

(* ------------------------------------------------------------------ *)
(* C24: get_snippets_with_tags returns the snippets as they were given *)
(* ------------------------------------------------------------------ *)

\* one record per stored snippet, the higher id first
OneRecordPerSnippet ==
    LET view == get_snippets_with_tags IN
    /\ Len(view) = Cardinality(snippets)
    /\ \A r \in snippets : \E i \in DOMAIN view : view[i].id = r.id
    /\ \A i, j \in DOMAIN view : i < j => view[i].id > view[j].id

\* right after the first statement of insert_snippet the new snippet is
\* returned with the URL, the body and the list of labels of the call
ReturnedAsGiven ==
    \A w \in OneWorker, u \in SourceUrlInputs, b \in BodyInputs,
       l \in SnippetTagListInputs :
        insert_snippet(w, u, b, l) =>
            [id |-> seq'.snippets, snippet |-> b, url |-> u, tags |-> l]
                \in Range(SnippetsWithTags(snippets'))

\* the record of a snippet stays as it is for as long as the snippet is
\* stored
RecordsStay ==
    \A e \in Range(get_snippets_with_tags) :
        (\E r \in snippets' : r.id = e.id) => e \in Range(SnippetsWithTags(snippets'))

\* delete_snippet takes the record of that id out and no other
DeleteTakesOneRecord ==
    \A w \in OneWorker, id \in 1..(MaxSnippetId + 1) :
        delete_snippet(w, id) =>
            Range(SnippetsWithTags(snippets')) =
                { e \in Range(get_snippets_with_tags) : e.id # id }

\* C24: get_snippets_with_tags returns one record per stored snippet, by
\* descending id; the record of a snippet holds the URL, the body and the
\* labels, in their order, that its insert_snippet call was given, and
\* keeps them; after delete_snippet(id) the record of that id is gone and
\* the other records are as before.
C24_SnippetsAsGiven ==
    /\ []OneRecordPerSnippet
    /\ [][ReturnedAsGiven /\ RecordsStay /\ DeleteTakesOneRecord]_vars

\* delete_snippet(1) has just returned: the second snippet is the only one
\* returned, with its two labels in the order given, the first of them
\* made of a double quote, a comma and a backslash
C24_Witness ==
    /\ HasReturned(1, "delete_snippet")
    /\ seq.snippets = 2
    /\ get_snippets_with_tags =
          << [id |-> 2, snippet |-> <<"s">>, url |-> <<"a">>,
              tags |-> << << "\"", ",", "\\" >>, <<"x">> >>] >>

(* ------------------------------------------------------------------ *)
(* C25: deletes keep the tags, the sweep and the inserts keep the items *)
(* ------------------------------------------------------------------ *)

\* a step that takes a Tag row away is a remove_unused_tags step: no
\* store-level delete of a bookmark or of a snippet is one
DeletesKeepTags ==
    (~ (tags \subseteq tags')) =>
        \E w \in OneWorker : remove_unused_tags(w)

\* a step that takes a Bookmark row away or changes one is a
\* delete_url_by_url step, and one that takes a Snippet row away or changes
\* one is a delete_snippet step: neither the sweep nor a statement of an
\* insert call is one
OthersKeepItems ==
    /\ (~ (urls \subseteq urls')) =>
          \E w \in OneWorker, u \in UrlInputs : delete_url_by_url(w, u)
    /\ (~ (snippets \subseteq snippets')) =>
          \E w \in OneWorker, id \in 1..MaxSnippetId : delete_snippet(w, id)

\* C25: delete_url_by_url and delete_snippet of the store never remove a
\* Tag row, so a tag that loses its last junction row stays until
\* remove_unused_tags runs; remove_unused_tags and the insert operations
\* never remove or change a Bookmark or a Snippet row.
C25_DeletesAndSweepFrame == [][DeletesKeepTags /\ OthersKeepItems]_vars

\* delete_url_by_url has just returned: the only bookmark is gone with its
\* junction row, and the tag it was linked to is still stored, unused
C25_Witness ==
    /\ HasReturned(1, "delete_url_by_url")
    /\ seq.urls = 1 /\ urls = {}
    /\ url_tags = {} /\ snippet_tags = {}
    /\ \E t \in tags : t.tag = <<"x">>

(* ------------------------------------------------------------------ *)
(* C26: display_url is the URL without its query part                  *)
(* ------------------------------------------------------------------ *)

\* the positions of '?' in a text
QueryMarks(text) == { i \in 1..Len(text) : text[i] = "?" }

\* the text before the first '?', the whole text when it has none
BeforeFirstQueryMark(text) ==
    IF QueryMarks(text) = {} THEN text
    ELSE LET k == CHOOSE i \in QueryMarks(text) : \A j \in QueryMarks(text) : i <= j
         IN  SubSeq(text, 1, k - 1)

\* C26: in whatever View A returns, the url of every entry is the stored
\* URL of a bookmark, every stored URL is the url of an entry, and the
\* display_url of an entry is its url cut before the first '?', the whole
\* url when it holds no '?'.
C26_DisplayUrl ==
    \A view \in get_urls_with_tags_results :
        /\ { view[i].url : i \in DOMAIN view } = { r.url : r \in urls }
        /\ \A i \in DOMAIN view :
              view[i].display_url = BeforeFirstQueryMark(view[i].url)

\* the bookmarks "a?b?a" and "?a" are stored: View A returns the first with
\* display_url "a" and the second with the empty display_url, both with
\* their url as stored
C26_Witness ==
    \E view \in get_urls_with_tags_results :
        /\ Len(view) = 2
        /\ \E i \in DOMAIN view :
              /\ view[i].url = <<"a", "?", "b", "?", "a">>
              /\ view[i].display_url = <<"a">>
        /\ \E i \in DOMAIN view :
              /\ view[i].url = <<"?", "a">>
              /\ view[i].display_url = <<>>

(* ------------------------------------------------------------------ *)
(* C27: the PostgreSQL and the SQLite backend return the same views    *)
(* ------------------------------------------------------------------ *)

\* View B of the SQLite backend as the caller receives it
SqliteViewB ==
    LET view == get_tags_with_urls_and_snippets
    IN  [ i \in DOMAIN view |->
            [tag |-> view[i].tag, urls |-> view[i].urls,
             snippets |-> view[i].snippets] ]

\* C27: over the same stored rows, the two backends return the same View B
\* (the same groups in the same order, each with the same URLs and the same
\* snippets, the untagged group included) and the same View A.
C27_BackendsAgree ==
    /\ pg_get_tags_with_urls_and_snippets = SqliteViewB
    /\ pg_get_urls_with_tags_results = get_urls_with_tags_results

(* ------------------------------------------------------------------ *)
(* C28: inserts running beside the sweep                               *)
(* ------------------------------------------------------------------ *)

\* no snippet has been deleted so far
NoSnippetDeleted == Cardinality(snippets) = seq.snippets

\* C28: as long as no bookmark and no snippet has been deleted, so that
\* remove_unused_tags is the only call that takes rows away, every
\* insert_tags and every insert_snippet call that has returned has returned
\* success, and a call about to write a junction row still finds the tag it
\* resolved or created.
C28_SweepNeverFailsInsert ==
    (NoBookmarkDeleted /\ NoSnippetDeleted) =>
        \A w \in Workers :
            /\ ( call[w].pc = "returned"
                 /\ call[w].op \in { "insert_tags", "insert_snippet" } )
               => call[w].ok
            /\ call[w].pc = "link_to_tag"
               => \E t \in tags : t.id = call[w].tag_id

(* ------------------------------------------------------------------ *)
(* C29: a successful insert_tags beside deletes                        *)
(* ------------------------------------------------------------------ *)

\* the step by which insert_tags returns success leaves the bookmark of
\* the id it obtained stored, with the URL of the call, and linked to the
\* tag of every label of the call
SuccessCoversAllLinks ==
    \A w \in Workers :
        ( link_to_tag(w) /\ HasReturned(w, "insert_tags")' /\ call'[w].ok ) =>
            /\ \E r \in urls' : r.id = call[w].target_id /\ r.url \in ConcUrlInputs
            /\ \A k \in DOMAIN call[w].labels :
                  \E t \in tags' :
                      /\ t.tag = call[w].labels[k]
                      /\ [url_id |-> call[w].target_id, tag_id |-> t.id] \in url_tags'

\* a bookmark id is never handed out twice: a bookmark created by a step
\* has an id above the counter, and no stored id is above it
BookmarkIdsBelowCounter == \A r \in urls : r.id <= seq.urls
BookmarkIdsFresh == \A r \in urls' \ urls : r.id > seq.urls

\* C29: whatever insert_url, delete_url_by_url, delete_snippet and
\* remove_unused_tags calls run between the statements of insert_tags(u, L),
\* when the call returns success, the bookmark whose id it obtained is
\* stored at its last write and linked to every label of L; the id is never
\* the id of a bookmark created after a delete, so the links are not on a
\* re-created bookmark.
C29_SuccessMeansLinked ==
    /\ []BookmarkIdsBelowCounter
    /\ [][SuccessCoversAllLinks /\ BookmarkIdsFresh]_vars

\* worker 1 has returned success from insert_tags with two labels on the
\* bookmark created after a delete (id 2), which is linked to both; worker
\* 2 still holds the id of the deleted bookmark and is about to link it
C29_Witness ==
    /\ HasReturned(1, "insert_tags") /\ call[1].ok
    /\ { r.id : r \in urls } = { 2 }
    /\ \A l \in LabelInputs :
          \E t \in tags : t.tag = l /\ [url_id |-> 2, tag_id |-> t.id] \in url_tags
    /\ call[2].pc = "link_to_tag" /\ call[2].target_id = 1

(* ------------------------------------------------------------------ *)
(* C30: the strings the views list are stored strings                  *)
(* ------------------------------------------------------------------ *)

\* C30: every URL listed in a group of View B is the URL of a stored
\* bookmark, and every tag listed in an entry of whatever View A returns is
\* the label of a stored tag, also for stored strings that hold a comma.
C30_ListedStringsAreStored ==
    /\ \A g \in Groups :
          \A k \in DOMAIN g.urls : \E r \in urls : r.url = g.urls[k]
    /\ \A view \in get_urls_with_tags_results :
          \A i \in DOMAIN view :
              \A k \in DOMAIN view[i].tags : \E t \in tags : t.tag = view[i].tags[k]


====
